---------------------------- MODULE Spec2Model ----------------------------
(***************************************************************************)
(* Model of the data layer of "Kejseren af Catan" (src/db.py) and of the   *)
(* cumulative-wins chart of src/app.py.                                    *)
(*                                                                         *)
(* The store is the SQLite file scores.db: three tables whose rows are     *)
(* kept here as sequences; a row's AUTOINCREMENT id is its position (no    *)
(* operation deletes a row, and a rolled-back insert gives its id back     *)
(* with the rest of the transaction).  A name is the tuple of its          *)
(* character codes; played_at is a point in time, an integer.              *)
(***************************************************************************)
EXTENDS Integers, Sequences, FiniteSets

VARIABLES
    schema,         \* TRUE once CREATE TABLE has run (scores.db has its tables)
    players,        \* committed rows of players: the names, by id
    games,          \* committed rows of games: [played_at, winner_id], by id
    scores,         \* committed rows of scores: [game_id, player_id, points], by id
    pc,             \* where the add_game call in progress stands: "idle", "scores"
    conn,           \* the writing connection's own view: [games, scores], uncommitted rows included
    player_points,  \* add_game's mapping argument, in iteration order: <<[pid, pts], ...>>
    i,              \* add_game's position in player_points.items(), left where the call ended
    ret             \* the latest call and its outcome: [op, status, value]

vars == <<schema, players, games, scores, pc, conn, player_points, i, ret>>

tables == <<schema, players, games, scores>>

-----------------------------------------------------------------------------
(* Bounds of the model *)

MaxPlayers == 3
MaxGames == 2
MaxEntries == 2
MaxPts == 1
MaxTime == 2

-----------------------------------------------------------------------------
(* Names *)

Kristian == <<75, 114, 105, 115, 116, 105, 97, 110>>
Johan == <<74, 111, 104, 97, 110>>

\* what str.strip() removes
Whitespace == {9, 10, 11, 12, 13, 28, 29, 30, 31, 32, 133, 160}

\* the names callers pass to add_player: "a", " a ", "b\n", " Kristian", "Johan"
NameInputs ==
    { <<97>>, <<32, 97, 32>>, <<98, 10>>, <<32>> \o Kristian, Johan }

RECURSIVE lstrip(_)
lstrip(s) ==
    IF s = <<>> THEN s
    ELSE IF Head(s) \in Whitespace THEN lstrip(Tail(s)) ELSE s

RECURSIVE rstrip(_)
rstrip(s) ==
    IF s = <<>> THEN s
    ELSE IF s[Len(s)] \in Whitespace THEN rstrip(SubSeq(s, 1, Len(s) - 1)) ELSE s

\* a strip() that trims the end of the name only
strip_end_only(s) == rstrip(s)

strip(s) == rstrip(lstrip(s))

\* BINARY collation of TEXT: bytewise, a proper prefix first
RECURSIVE NameLess(_, _)
NameLess(a, b) ==
    IF b = <<>> THEN FALSE
    ELSE IF a = <<>> THEN TRUE
    ELSE IF Head(a) # Head(b) THEN Head(a) < Head(b)
    ELSE NameLess(Tail(a), Tail(b))

\* SQL NULL in a name column, and in an id column
NULL == << -1 >>
NoRow == 0

Range(s) == {s[k] : k \in 1..Len(s)}

-----------------------------------------------------------------------------
(* Inputs *)

Times == 1..MaxTime

\* player ids a caller may name: those of the table and one that no row has
PlayerIds == 1..(Len(players) + 1)

Entry == [pid : PlayerIds, pts : 0..MaxPts]

\* a dict: its keys are distinct; the sequence is its iteration order
PointMaps ==
    UNION { { m \in [1..n -> Entry] :
                \A a, b \in 1..n : a # b => m[a].pid # m[b].pid } : n \in 0..MaxEntries }

-----------------------------------------------------------------------------
(* Results of calls *)

Returned(op, value) == [op |-> op, status |-> "ok", value |-> value]
Raised(op, error) == [op |-> op, status |-> error, value |-> <<>>]
Running(op) == [op |-> op, status |-> "running", value |-> <<>>]

-----------------------------------------------------------------------------
(* init_db *)

\* INSERT OR IGNORE INTO players(name): UNIQUE(name) makes a present name a no-op
InsertOrIgnorePlayer(rows, name) ==
    IF name \in Range(rows) THEN rows ELSE Append(rows, name)

\* a seeding that does not look at COUNT(*) and inserts plainly
SeedOnEveryCall(rows) == rows \o <<Kristian, Johan>>

SeedPlayers(rows) ==
    IF Len(rows) = 0
    THEN InsertOrIgnorePlayer(InsertOrIgnorePlayer(rows, Kristian), Johan)
    ELSE rows

\* CREATE TABLE IF NOT EXISTS, COUNT(*), the two INSERTs under count == 0, commit.
\* It writes on a store without tables or players only, and no add_game is in
\* progress on such a store: init_db never has to wait for the write lock.
init_db ==
    /\ pc = "scores" => schema /\ Len(players) > 0
    /\ schema' = TRUE
    /\ players' = SeedPlayers(players)
    /\ ret' = Returned("init_db", <<>>)
    /\ UNCHANGED <<games, scores, pc, conn, player_points, i>>

-----------------------------------------------------------------------------
(* add_player *)

\* An INSERT takes the store's write lock, which the transaction of an add_game
\* in progress holds: the call waits for it (sqlite3's busy timeout).
add_player(name) ==
    /\ pc = "idle"
    /\ IF ~schema
       THEN /\ ret' = Raised("add_player", "OperationalError")
            /\ UNCHANGED players
       ELSE /\ strip(name) \in Range(players) \/ Len(players) < MaxPlayers
            /\ players' = InsertOrIgnorePlayer(players, strip(name))
            /\ ret' = Returned("add_player", <<>>)
    /\ UNCHANGED <<schema, games, scores, pc, conn, player_points, i>>

-----------------------------------------------------------------------------
(* add_game *)

\* a max that keeps the last maximal key
RECURSIVE MaxFromKeepLast(_, _, _)
MaxFromKeepLast(pp, k, best) ==
    IF k > Len(pp) THEN best
    ELSE MaxFromKeepLast(pp, k + 1, IF pp[k].pts >= pp[best].pts THEN k ELSE best)

\* max(player_points, key=...): the first maximal key of the iteration
RECURSIVE MaxFrom(_, _, _)
MaxFrom(pp, k, best) ==
    IF k > Len(pp) THEN best
    ELSE MaxFrom(pp, k + 1, IF pp[k].pts > pp[best].pts THEN k ELSE best)

winner_id(pp) == pp[MaxFrom(pp, 2, 1)].pid

\* FOREIGN KEY ... REFERENCES players(id), with PRAGMA foreign_keys = ON
PlayerExists(pid) == pid \in 1..Len(players)

GameRow(played_at, pp) == [played_at |-> played_at, winner_id |-> winner_id(pp)]

ScoreRow(game_id, e) == [game_id |-> game_id, player_id |-> e.pid, points |-> e.pts]

\* a connection that outlives the failed call, its uncommitted rows with it
KeepUncommitted == conn

\* closing(conn) without commit: the uncommitted rows are gone
Rollback == [games |-> games, scores |-> scores]

\* an add_game without the check of its argument: the empty mapping has no
\* winner, and the game row is inserted with winner_id NULL
add_game_unchecked(played_at, pp) ==
    /\ pc = "idle"
    /\ i' = 1
    /\ IF ~schema
       THEN /\ ret' = Raised("add_game", "OperationalError")
            /\ player_points' = <<>>
            /\ UNCHANGED <<pc, conn>>
       ELSE IF pp # <<>> /\ ~PlayerExists(winner_id(pp))
       THEN /\ ret' = Raised("add_game", "IntegrityError")
            /\ player_points' = <<>>
            /\ UNCHANGED <<pc, conn>>
       ELSE /\ Len(games) < MaxGames
            /\ conn' = [conn EXCEPT !.games = Append(@,
                            IF pp = <<>> THEN [played_at |-> played_at, winner_id |-> NoRow]
                                         ELSE GameRow(played_at, pp))]
            /\ player_points' = pp
            /\ pc' = "scores"
            /\ ret' = Running("add_game")
    /\ UNCHANGED <<schema, players, games, scores>>

\* add_game up to its first INSERT: the check of the argument, then
\* INSERT INTO games(played_at, winner_id) in a transaction of the connection,
\* which takes the write lock (pc = "idle": no other add_game holds it)
add_game(played_at, pp) ==
    /\ pc = "idle"
    /\ i' = 1
    /\ IF pp = <<>>
       THEN /\ ret' = Raised("add_game", "ValueError")
            /\ player_points' = <<>>
            /\ UNCHANGED <<pc, conn>>
       ELSE IF ~schema
       THEN /\ ret' = Raised("add_game", "OperationalError")
            /\ player_points' = <<>>
            /\ UNCHANGED <<pc, conn>>
       ELSE IF ~PlayerExists(winner_id(pp))
       THEN /\ ret' = Raised("add_game", "IntegrityError")
            /\ player_points' = <<>>
            /\ UNCHANGED <<pc, conn>>
       ELSE /\ Len(games) < MaxGames
            /\ conn' = [conn EXCEPT !.games = Append(@, GameRow(played_at, pp))]
            /\ player_points' = pp
            /\ pc' = "scores"
            /\ ret' = Running("add_game")
    /\ UNCHANGED <<schema, players, games, scores>>

\* one turn of the loop over player_points.items()
AddGameInsertScore ==
    /\ pc = "scores"
    /\ i <= Len(player_points)
    /\ IF PlayerExists(player_points[i].pid)
       THEN /\ conn' = [conn EXCEPT !.scores =
                            Append(@, ScoreRow(Len(conn.games), player_points[i]))]
            /\ i' = i + 1
            /\ UNCHANGED <<pc, player_points, ret>>
       ELSE /\ conn' = Rollback
            /\ pc' = "idle"
            /\ player_points' = <<>>
            /\ ret' = Raised("add_game", "IntegrityError")
            /\ UNCHANGED i
    /\ UNCHANGED <<schema, players, games, scores>>

\* conn.commit(); return game_id, winner_id
AddGameCommit ==
    /\ pc = "scores"
    /\ i > Len(player_points)
    /\ games' = conn.games
    /\ scores' = conn.scores
    /\ pc' = "idle"
    /\ ret' = Returned("add_game", <<Len(conn.games), conn.games[Len(conn.games)].winner_id>>)
    /\ UNCHANGED <<schema, players, conn, player_points, i>>

\* the process dies inside the transaction: nothing of it was committed
AddGameCrash ==
    /\ pc = "scores"
    /\ conn' = Rollback
    /\ pc' = "idle"
    /\ player_points' = <<>>
    /\ ret' = Raised("add_game", "killed")
    /\ UNCHANGED <<schema, players, games, scores, i>>

-----------------------------------------------------------------------------
(* ORDER BY *)

\* every order of the rows of S in which no row stands before one that the
\* relation ahead (pairs <<a, b>>: a sorts before b) puts ahead of it
RECURSIVE Orders(_, _)
Orders(S, ahead) ==
    IF S = {} THEN { <<>> }
    ELSE UNION { { <<x>> \o rest : rest \in Orders(S \ {x}, ahead) } :
                 x \in { y \in S : \A z \in S : <<z, y>> \notin ahead } }

\* the orders ORDER BY allows; rows that tie under Before come in any order
OrderBy(S, Before(_, _)) == Orders(S, { r \in S \X S : Before(r[1], r[2]) })

-----------------------------------------------------------------------------
(* list_players, list_games *)

PlayerRows == { [id |-> p, name |-> players[p]] : p \in 1..Len(players) }

ByName(a, b) == NameLess(a.name, b.name)

list_players == OrderBy(PlayerRows, ByName)

\* games g LEFT JOIN players p ON p.id = g.winner_id
WinnerName(g) ==
    IF games[g].winner_id \in 1..Len(players) THEN players[games[g].winner_id] ELSE NULL

GameWinnerRows ==
    { [game_id |-> g, played_at |-> games[g].played_at, winner |-> WinnerName(g)] :
        g \in 1..Len(games) }

NewestFirst(a, b) ==
    \/ a.played_at > b.played_at
    \/ a.played_at = b.played_at /\ a.game_id > b.game_id

list_games == OrderBy(GameWinnerRows, NewestFirst)

-----------------------------------------------------------------------------
(* get_leaderboard *)

\* players p LEFT JOIN scores s ON s.player_id = p.id LEFT JOIN games g ON g.id = s.game_id:
\* the joined rows of player p, as <<score id, game id>>, NoRow where the join found none
\* a join of games without its ON condition
JoinEveryGame(s) ==
    IF Len(games) = 0 THEN { <<s, NoRow>> } ELSE { <<s, g>> : g \in 1..Len(games) }

JoinGames(s) ==
    LET gs == { g \in 1..Len(games) : g = scores[s].game_id }
    IN  IF gs = {} THEN { <<s, NoRow>> } ELSE { <<s, g>> : g \in gs }

Joined(p) ==
    LET ss == { s \in 1..Len(scores) : scores[s].player_id = p }
    IN  IF ss = {} THEN { <<NoRow, NoRow>> } ELSE UNION { JoinGames(s) : s \in ss }

\* COALESCE(SUM(s.points), 0)
RECURSIVE SumPoints(_)
SumPoints(R) ==
    IF R = {} THEN 0
    ELSE LET r == CHOOSE x \in R : TRUE
         IN  (IF r[1] = NoRow THEN 0 ELSE scores[r[1]].points) + SumPoints(R \ {r})

\* a sum that counts every game the player has a score in
RECURSIVE SumGamesJoined(_, _)
SumGamesJoined(R, p) ==
    IF R = {} THEN 0
    ELSE LET r == CHOOSE x \in R : TRUE
         IN  (IF r[2] # NoRow THEN 1 ELSE 0) + SumGamesJoined(R \ {r}, p)

\* COALESCE(SUM(CASE WHEN g.winner_id = p.id THEN 1 ELSE 0 END), 0)
RECURSIVE SumWins(_, _)
SumWins(R, p) ==
    IF R = {} THEN 0
    ELSE LET r == CHOOSE x \in R : TRUE
         IN  (IF r[2] # NoRow /\ games[r[2]].winner_id = p THEN 1 ELSE 0)
               + SumWins(R \ {r}, p)

\* COALESCE(COUNT(DISTINCT s.game_id), 0)
CountDistinctGames(R) == Cardinality({ scores[r[1]].game_id : r \in { x \in R : x[1] # NoRow } })

LeaderboardRow(p) ==
    [id |-> p, name |-> players[p],
     total_points |-> SumPoints(Joined(p)),
     wins |-> SumWins(Joined(p), p),
     games_played |-> CountDistinctGames(Joined(p))]

\* an ORDER BY total_points DESC, wins DESC, without the name
RanksWithoutName(a, b) ==
    \/ a.total_points > b.total_points
    \/ a.total_points = b.total_points /\ a.wins > b.wins

\* ORDER BY total_points DESC, wins DESC, p.name ASC
Ranks(a, b) ==
    \/ a.total_points > b.total_points
    \/ a.total_points = b.total_points /\ a.wins > b.wins
    \/ a.total_points = b.total_points /\ a.wins = b.wins /\ NameLess(a.name, b.name)

get_leaderboard == OrderBy({ LeaderboardRow(p) : p \in 1..Len(players) }, Ranks)

-----------------------------------------------------------------------------
(* get_game_scores, get_all_scores, get_games_with_winners *)

\* scores s JOIN players p ON p.id = s.player_id WHERE s.game_id = ?
GameScoreRows(game_id) ==
    { [score_id |-> s, name |-> players[scores[s].player_id], points |-> scores[s].points] :
        s \in { k \in 1..Len(scores) :
                  scores[k].game_id = game_id /\ scores[k].player_id \in 1..Len(players) } }

PointsDesc(a, b) == a.points > b.points

get_game_scores(game_id) == OrderBy(GameScoreRows(game_id), PointsDesc)

\* scores s JOIN games g ON g.id = s.game_id JOIN players p ON p.id = s.player_id
AllScoreRows ==
    { [score_id |-> s, game_id |-> scores[s].game_id,
       played_at |-> games[scores[s].game_id].played_at,
       player |-> players[scores[s].player_id], points |-> scores[s].points] :
        s \in { k \in 1..Len(scores) :
                  scores[k].game_id \in 1..Len(games) /\ scores[k].player_id \in 1..Len(players) } }

\* ORDER BY g.played_at ASC, g.id ASC, s.points DESC
AllScoresOrder(a, b) ==
    \/ a.played_at < b.played_at
    \/ a.played_at = b.played_at /\ a.game_id < b.game_id
    \/ a.played_at = b.played_at /\ a.game_id = b.game_id /\ a.points > b.points

get_all_scores == OrderBy(AllScoreRows, AllScoresOrder)

\* ORDER BY g.played_at ASC, g.id ASC
OldestFirst(a, b) ==
    \/ a.played_at < b.played_at
    \/ a.played_at = b.played_at /\ a.game_id < b.game_id

get_games_with_winners == OrderBy(GameWinnerRows, OldestFirst)

-----------------------------------------------------------------------------
(* The cumulative-wins chart of app.py *)

\* games_df.dropna(subset=["winner"]).sort_values(["winner", "played_at", "game_id"])
WinnerTimeId(a, b) ==
    \/ NameLess(a.winner, b.winner)
    \/ a.winner = b.winner /\ a.played_at < b.played_at
    \/ a.winner = b.winner /\ a.played_at = b.played_at /\ a.game_id < b.game_id

wins_df(game_rows) ==
    CHOOSE df \in OrderBy({ game_rows[k] : k \in { j \in 1..Len(game_rows) :
                                                     game_rows[j].winner # NULL } },
                          WinnerTimeId) : TRUE

\* a cumsum() over the whole frame, not per winner
cum_wins_ungrouped(df) == [k \in 1..Len(df) |-> k]

\* wins_df["win"] = 1; wins_df.groupby("winner")["win"].cumsum(), row by row
cum_wins(df) ==
    [k \in 1..Len(df) |-> Cardinality({ j \in 1..k : df[j].winner = df[k].winner })]

\* the line of the chart for one winner: its cum_wins, in the order of the rows
RECURSIVE LineOf(_, _, _)
LineOf(df, cum, name) ==
    IF df = <<>> THEN <<>>
    ELSE (IF Head(df).winner = name THEN <<Head(cum)>> ELSE <<>>)
           \o LineOf(Tail(df), Tail(cum), name)

cumulative_wins(game_rows, name) ==
    LineOf(wins_df(game_rows), cum_wins(wins_df(game_rows)), name)

-----------------------------------------------------------------------------
(* A read query as a call: what it hands to its caller *)

ReadOps ==
    { "list_players", "list_games", "get_leaderboard", "get_game_scores",
      "get_all_scores", "get_games_with_winners" }

\* where the store may fail a query: not at all, in get_conn(), in conn.execute()
Faults == { "none", "connect", "execute" }

\* the rows the query's SELECT may give, each a fetchall() list
Fetched(op, game_id) ==
    CASE op = "list_players" -> list_players
      [] op = "list_games" -> list_games
      [] op = "get_leaderboard" -> get_leaderboard
      [] op = "get_game_scores" -> get_game_scores(game_id)
      [] op = "get_all_scores" -> get_all_scores
      [] op = "get_games_with_winners" -> get_games_with_winners

\* the one query whose execute() stands inside try/except Exception: return []
CatchesExecuteError(op) == op = "get_game_scores"

\* a fault raises sqlite3.Error, from get_conn() or from execute(); a SELECT
\* on a store without its tables raises sqlite3.OperationalError (no such table)
ReadQuery(op, game_id, fault) ==
    /\ op = "get_game_scores" \/ game_id = 1
    /\ IF fault = "connect"
       THEN ret' = Raised(op, "sqlite3.Error in get_conn")
       ELSE IF fault = "execute" \/ ~schema
       THEN ret' = IF CatchesExecuteError(op)
                   THEN Returned(op, <<>>)
                   ELSE Raised(op, IF fault = "execute" THEN "sqlite3.Error in execute"
                                                        ELSE "OperationalError")
       ELSE \E rows \in Fetched(op, game_id) : ret' = Returned(op, rows)
    /\ UNCHANGED <<schema, players, games, scores, pc, conn, player_points, i>>

-----------------------------------------------------------------------------

Init ==
    /\ schema = FALSE
    /\ players = <<>>
    /\ games = <<>>
    /\ scores = <<>>
    /\ pc = "idle"
    /\ conn = [games |-> <<>>, scores |-> <<>>]
    /\ player_points = <<>>
    /\ i = 1
    /\ ret = Returned("none", <<>>)

Next ==
    \/ init_db
    \/ \E name \in NameInputs : add_player(name)
    \/ \E t \in Times, pp \in PointMaps : add_game(t, pp)
    \/ AddGameInsertScore
    \/ AddGameCommit
    \/ AddGameCrash

Spec == Init /\ [][Next]_vars

\* The callers of the read queries.  A query runs on a connection of its own
\* and sees the committed tables, whatever the writer is doing.  The store is
\* kept to MaxReadGames games here.
MaxReadGames == 1

ReadNext ==
    \/ init_db
    \/ \E name \in NameInputs : add_player(name)
    \/ \E t \in Times, pp \in PointMaps : Len(games) < MaxReadGames /\ add_game(t, pp)
    \/ AddGameInsertScore
    \/ AddGameCommit
    \/ AddGameCrash
    \/ \E op \in ReadOps, game_id \in 1..(MaxReadGames + 1), fault \in Faults :
           ReadQuery(op, game_id, fault)

ReadSpec == Init /\ [][ReadNext]_vars

-----------------------------------------------------------------------------
(* Properties *)

MaxOfPoints(pp) == CHOOSE m \in { pp[k].pts : k \in 1..Len(pp) } :
                       \A k \in 1..Len(pp) : pp[k].pts <= m

\* the key of pp with the maximum of the points, the first one in input order
FirstKeyOfMax(pp) ==
    pp[CHOOSE k \in 1..Len(pp) :
           /\ pp[k].pts = MaxOfPoints(pp)
           /\ \A j \in 1..(k - 1) : pp[j].pts # MaxOfPoints(pp)].pid

ScoresOf(tbl, game_id) == { s \in 1..Len(tbl) : tbl[s].game_id = game_id }

\* C1: the winner add_game stores on the new game row and returns is the key of
\* its mapping with the maximum of the points, the first such key in input
\* order when several tie: on the row the connection inserted while the call
\* runs, and on the committed row and in the returned pair once it returned.
C1_WinnerIsFirstMax ==
    /\ pc = "scores" =>
          conn.games[Len(conn.games)].winner_id = FirstKeyOfMax(player_points)
    /\ ret.op = "add_game" /\ ret.status = "ok" =>
          /\ ret.value = <<Len(games), FirstKeyOfMax(player_points)>>
          /\ games[Len(games)].winner_id = FirstKeyOfMax(player_points)
          /\ \E k \in 1..Len(player_points) :
                /\ player_points[k].pid = ret.value[2]
                /\ player_points[k].pts = MaxOfPoints(player_points)

\* add_game returned a winner that tied for the maximum with a later key of a
\* smaller player id
C1_Witness ==
    /\ ret.op = "add_game" /\ ret.status = "ok"
    /\ Len(player_points) = 2
    /\ player_points[1].pts = player_points[2].pts
    /\ player_points[1].pid > player_points[2].pid
    /\ ret.value[2] = player_points[1].pid

\* the rows of a table that a reader finds for game g are the rows of a whole
\* add_game: the game row with its winner, and the score rows, one per player
WholeGame(g) ==
    /\ games[g].winner_id \in 1..Len(players)
    /\ ScoresOf(scores, g) # {}
    /\ \E s \in ScoresOf(scores, g) : scores[s].player_id = games[g].winner_id
    /\ \A s, t \in ScoresOf(scores, g) : scores[s].player_id = scores[t].player_id => s = t

\* C2: add_game is all-or-nothing.  In every state, the committed tables (what
\* any reader sees) hold no score without its game, and each game with its
\* winner and its scores; while add_game runs and after it failed or was
\* killed, they hold no row of it; once it returned, the new game has exactly
\* one score row per entry of the mapping, in the mapping's order.
C2_AllOrNothing ==
    /\ \A s \in 1..Len(scores) : scores[s].game_id \in 1..Len(games)
    /\ \A g \in 1..Len(games) : WholeGame(g)
    /\ pc = "scores" =>
          /\ Len(conn.games) = Len(games) + 1
          /\ ScoresOf(scores, Len(conn.games)) = {}
          /\ conn.scores = scores \o [k \in 1..(i - 1) |->
                                         ScoreRow(Len(conn.games), player_points[k])]
    /\ pc = "idle" => conn = [games |-> games, scores |-> scores]
    /\ ret.op = "add_game" /\ ret.status = "ok" =>
          /\ ret.value[1] = Len(games)
          /\ Cardinality(ScoresOf(scores, Len(games))) = Len(player_points)
          /\ \A k \in 1..Len(player_points) :
                scores[Len(scores) - Len(player_points) + k]
                    = ScoreRow(Len(games), player_points[k])

\* add_game failed on the second entry of its mapping, after the game row and a
\* score row had been inserted next to a game recorded before
C2_Witness ==
    /\ ret.op = "add_game" /\ ret.status = "IntegrityError"
    /\ i = 2
    /\ Len(games) = 1
    /\ pc = "idle"

\* what trimming the surrounding whitespace leaves of a name
Trimmed(name) ==
    LET cuts == { c \in (1..(Len(name) + 1)) \X (0..Len(name)) :
                    /\ c[1] <= c[2] + 1
                    /\ \A k \in 1..Len(name) : k < c[1] \/ k > c[2] => name[k] \in Whitespace
                    /\ c[1] <= c[2] => name[c[1]] \notin Whitespace /\ name[c[2]] \notin Whitespace }
    IN  CHOOSE t \in { SubSeq(name, c[1], c[2]) : c \in cuts } : TRUE

\* C8: add_game called with an empty mapping raises the validation error and
\* writes nothing: the tables, and the connection's view of them, are as before.
C8_EmptyMappingRejected ==
    [][\A t \in Times :
          add_game(t, <<>>) =>
             /\ ret' = Raised("add_game", "ValueError")
             /\ tables' = tables
             /\ conn' = conn
             /\ pc' = pc]_vars

\* add_game was refused an empty mapping on a store that holds games
C8_Witness ==
    /\ ret = Raised("add_game", "ValueError")
    /\ Len(games) > 0
    /\ Len(scores) > 0

C10_SeedOnlyWhenEmpty ==
    [][init_db =>
          /\ IF Len(players) = 0
             THEN players' = <<Kristian, Johan>>
             ELSE players' = players
          /\ games' = games
          /\ scores' = scores
          /\ Cardinality({ p \in 1..Len(players') : players'[p] = Kristian }) = 1
          /\ Cardinality({ p \in 1..Len(players') : players'[p] = Johan }) = 1]_vars

\* init_db ran again on a store with a third player and a game
C10_Witness ==
    /\ ret = Returned("init_db", <<>>)
    /\ Len(players) = 3
    /\ Len(games) > 0

\* the games whose recorded winner is player p
GamesWonBy(p) == { g \in 1..Len(games) : games[g].winner_id = p }

\* the points of the first n score rows that are player p's, added up
RECURSIVE PointsUpTo(_, _)
PointsUpTo(p, n) ==
    IF n = 0 THEN 0
    ELSE PointsUpTo(p, n - 1) + (IF scores[n].player_id = p THEN scores[n].points ELSE 0)

RowsOf(lb, p) == { k \in 1..Len(lb) : lb[k].id = p }

\* C3: in every reachable store, for every player, the wins of the player's
\* get_leaderboard row are the number of games whose recorded winner is the player.
C3_WinsAreGamesWon ==
    schema =>
       \A lb \in get_leaderboard : \A p \in 1..Len(players) :
          /\ RowsOf(lb, p) # {}
          /\ \A k \in RowsOf(lb, p) : lb[k].wins = Cardinality(GamesWonBy(p))

\* a store where one player has won two games and another player none
C3_Witness ==
    /\ pc = "idle"
    /\ \E p, q \in 1..Len(players) :
          /\ Cardinality(GamesWonBy(p)) = 2
          /\ \A lb \in get_leaderboard : \E k, l \in 1..Len(lb) :
                /\ lb[k].id = p /\ lb[k].wins = 2
                /\ lb[l].id = q /\ lb[l].wins = 0 /\ lb[l].games_played = 2

\* C4: in every reachable store, for every player, total_points of the player's
\* get_leaderboard row is the sum of the points of the player's score rows; a
\* player without a score row has a row, with total_points, wins and
\* games_played all 0.
C4_TotalPointsAreSum ==
    schema =>
       \A lb \in get_leaderboard : \A p \in 1..Len(players) :
          /\ RowsOf(lb, p) # {}
          /\ \A k \in RowsOf(lb, p) :
                /\ lb[k].total_points = PointsUpTo(p, Len(scores))
                /\ (\A s \in 1..Len(scores) : scores[s].player_id # p) =>
                      lb[k].total_points = 0 /\ lb[k].wins = 0 /\ lb[k].games_played = 0

\* a store of two games where one player has points from both and another
\* player has no score row
C4_Witness ==
    /\ pc = "idle"
    /\ Len(games) = 2
    /\ \E p, q \in 1..Len(players) :
          /\ PointsUpTo(p, Len(scores)) = 2
          /\ \A s \in 1..Len(scores) : scores[s].player_id # q
          /\ \A lb \in get_leaderboard : \E k, l \in 1..Len(lb) :
                /\ lb[k].id = p /\ lb[k].total_points = 2 /\ lb[k].games_played = 2
                /\ lb[l].id = q /\ lb[l].total_points = 0

\* row a stands strictly before row b: more points, or as many and more wins,
\* or as many of both and the smaller name
StrictlyBefore(a, b) ==
    \/ a.total_points > b.total_points
    \/ a.total_points = b.total_points /\ a.wins > b.wins
    \/ /\ a.total_points = b.total_points /\ a.wins = b.wins
       /\ a.name # b.name /\ ~NameLess(b.name, a.name)

\* C5: the rows of get_leaderboard hold every player exactly once, and each row
\* stands strictly before the next one in the order of total_points descending,
\* wins descending, name ascending.
C5_LeaderboardTotallyOrdered ==
    schema =>
       \A lb \in get_leaderboard :
          /\ Len(lb) = Len(players)
          /\ \A p \in 1..Len(players) : Cardinality(RowsOf(lb, p)) = 1
          /\ \A k \in 1..(Len(lb) - 1) : StrictlyBefore(lb[k], lb[k + 1])

\* a leaderboard of three rows that tie on points: the first two tie on wins
\* too and are ordered by name, the last one has fewer wins and the smallest name
C5_Witness ==
    /\ pc = "idle"
    /\ \E lb \in get_leaderboard :
          /\ Len(lb) = 3
          /\ lb[1].total_points = lb[2].total_points /\ lb[1].wins = lb[2].wins
          /\ lb[2].total_points = lb[3].total_points /\ lb[2].wins > lb[3].wins
          /\ lb[3].total_points > 0
          /\ NameLess(lb[1].name, lb[2].name)
          /\ NameLess(lb[3].name, lb[1].name)

\* C6: for every player, the cumulative-wins line the chart draws from
\* get_games_with_winners never decreases, and its last value is the wins of
\* the player's get_leaderboard row over the same store (a player without a
\* won game has no line, and wins 0).
C6_CumulativeWinsMatchLeaderboard ==
    schema =>
       \A game_rows \in get_games_with_winners : \A lb \in get_leaderboard :
          \A k \in 1..Len(lb) :
             LET line == cumulative_wins(game_rows, lb[k].name)
             IN  /\ \A n \in 1..(Len(line) - 1) : line[n] <= line[n + 1]
                 /\ IF line = <<>> THEN lb[k].wins = 0
                                   ELSE line[Len(line)] = lb[k].wins

\* a player has a line of two wins, 1 then 2, over two games that were
\* recorded against the order of their times
C6_Witness ==
    /\ pc = "idle"
    /\ \E game_rows \in get_games_with_winners :
          /\ Len(game_rows) >= 2
          /\ game_rows[1].game_id > game_rows[2].game_id
          /\ cumulative_wins(game_rows, game_rows[1].winner) = <<1, 2>>

\* C7: for each of the six read queries, on a store that has its tables, an
\* error the store raises while the query's SELECT runs is caught, the query
\* returns an empty result, and the error does not reach the caller.
C7_ReadErrorsNeverPropagate ==
    schema /\ Len(games) > 0 /\ ret.op \in ReadOps =>
       ret.status # "sqlite3.Error in execute"

=============================================================================
